---- MODULE Spec2Model ----
(***************************************************************************)
(* Model of the Kaizen Python SDK: the transport adapter (HttpClient), the *)
(* error taxonomy, the facade client and the Sozo service client, in the   *)
(* two trees of the repository: the package tree (kaizen/http.py,          *)
(* kaizen/client.py, kaizen/services) and the flat module                  *)
(* (kaizen/__init__.py).                                                   *)
(*                                                                         *)
(* Conventions.  Python's None and an optional value are sequences of      *)
(* length 0 and 1.  A text is a sequence of chunks; a chunk is either one  *)
(* whitespace character or an indivisible piece of text.  A JSON object is *)
(* a record over the keys the adapter and its callers look at, each key    *)
(* holding an optional value.                                              *)
(***************************************************************************)
EXTENDS Integers, Sequences, FiniteSets, TLC

\* Bounds of the model.
MaxPad == 1
MaxCellLen == 2
MaxRows == 2
MaxHeaderLen == 2
MaxThreads == 2

None == <<>>
Some(x) == <<x>>

----------------------------------------------------------------------------
\* Texts

WS == " "

RECURSIVE lstrip(_)
lstrip(text) ==
  IF text # <<>> /\ Head(text) = WS THEN lstrip(Tail(text)) ELSE text

RECURSIVE rstrip(_)
rstrip(text) ==
  IF text # <<>> /\ text[Len(text)] = WS
  THEN rstrip(SubSeq(text, 1, Len(text) - 1))
  ELSE text

\* str.strip()
strip(text) == rstrip(lstrip(text))

RECURSIVE Pad(_)
Pad(n) == IF n = 0 THEN <<>> ELSE <<WS>> \o Pad(n - 1)

\* str(x) of a value that is already a text
str(text) == text

----------------------------------------------------------------------------
\* JSON values carried by response bodies

Dict(error, sql) == [error |-> error, sql |-> sql]
EmptyDict == Dict(None, None)

OBJ_ERROR == "{\"error\":\"bad key\"}"
OBJ_ERROR_EMPTY == "{\"error\":\"\"}"
OBJ_SQL == "{\"sql\":\"select 1\"}"
OBJ_EMPTY == "{}"
ARRAY == "[1]"
SCALAR == "true"
PLAIN == "oops"

JsonChunks == {OBJ_ERROR, OBJ_ERROR_EMPTY, OBJ_SQL, OBJ_EMPTY, ARRAY, SCALAR}

\* Documents the Akuma endpoints answer with
OBJ_SOFT_ERROR == "{\"sql\":\"select 1\",\"error\":\"unsafe\"}"
OBJ_ROWS == "{\"sql\":\"select 1\",\"rows\":[{\"n\":1}],\"tables\":[\"t\"]}"
OBJ_EXPLAINED == "{\"sql\":\"select 2\",\"explanation\":\"two\"}"
OBJ_STATUS == "{\"status\":\"ok\",\"tables\":2}"

AkumaChunks == {OBJ_SOFT_ERROR, OBJ_ROWS, OBJ_EXPLAINED, OBJ_STATUS}

\* Documents the Enzan summary endpoint answers with.  A field whose JSON
\* value may be null is None when the key is absent, Some(None) when the value
\* is null and Some(Some(v)) when it is v.
SUM_FULL == "{\"window\":\"7d\",\"startTime\":\"t0\",\"endTime\":\"t1\",\"rows\":[{\"cost_usd\":3,\"gpu_hours\":1,\"requests\":2,\"tokens_in\":5,\"tokens_out\":7,\"project\":\"p\",\"endpoint\":\"/v1/akuma/query\"},{\"cost_usd\":4,\"model\":\"m\"}],\"total\":{\"cost_usd\":7,\"gpu_hours\":1,\"requests\":2},\"apiCosts\":{\"totalCostUsd\":4,\"promptTokens\":1000,\"outputTokens\":200,\"queries\":5}}"
SUM_BARE == "{\"rows\":[{}]}"
SUM_NULL_COST == "{\"rows\":[{\"cost_usd\":null,\"requests\":2}],\"total\":{\"cost_usd\":null}}"
SUM_NULL_TOTAL == "{\"rows\":[],\"total\":null}"
SUM_NULL_ROWS == "{\"rows\":null}"

SummaryChunks == {SUM_FULL, SUM_BARE, SUM_NULL_COST, SUM_NULL_TOTAL, SUM_NULL_ROWS}

Number(n) == Some(Some(n))
Null == Some(None)

NoRow ==
  [cost_usd |-> None, gpu_hours |-> None, requests |-> None, tokens_in |-> None,
   tokens_out |-> None, project |-> None, model |-> None, team |-> None,
   provider |-> None, endpoint |-> None]

NoTotal == [cost_usd |-> None, gpu_hours |-> None, requests |-> None]

ApiCosts(totalCostUsd, promptTokens, outputTokens, queries) ==
  [totalCostUsd |-> totalCostUsd, promptTokens |-> promptTokens,
   outputTokens |-> outputTokens, queries |-> queries]

SummaryDict(window, startTime, endTime, rows, total, apiCosts) ==
  EmptyDict @@ [window |-> window, startTime |-> startTime, endTime |-> endTime,
                rows |-> rows, total |-> total, apiCosts |-> apiCosts]

\* Documents the Enzan resources endpoint answers with
RES_FULL == "{\"resources\":[{\"id\":\"r1\",\"provider\":\"aws\",\"gpuType\":\"a100\",\"gpuCount\":8,\"hourlyRate\":32,\"region\":\"us\",\"labels\":{\"env\":\"prod\"}}]}"
RES_MIN == "{\"resources\":[{\"id\":\"r1\",\"provider\":\"aws\",\"gpuType\":\"a100\",\"gpuCount\":8,\"hourlyRate\":32},{\"id\":\"r1\",\"provider\":\"aws\",\"gpuType\":\"a100\",\"gpuCount\":8,\"hourlyRate\":32,\"region\":\"us\",\"labels\":{\"env\":\"prod\"}}]}"
RES_NO_ID == "{\"resources\":[{\"provider\":\"aws\",\"gpuType\":\"a100\",\"gpuCount\":8,\"hourlyRate\":32}]}"
RES_NO_PROVIDER == "{\"resources\":[{\"id\":\"r1\",\"gpuType\":\"a100\",\"gpuCount\":8,\"hourlyRate\":32}]}"
RES_NO_GPU_TYPE == "{\"resources\":[{\"id\":\"r1\",\"provider\":\"aws\",\"gpuType\":\"a100\",\"gpuCount\":8,\"hourlyRate\":32},{\"id\":\"r1\",\"provider\":\"aws\",\"gpuCount\":8,\"hourlyRate\":32}]}"
RES_NO_GPU_COUNT == "{\"resources\":[{\"id\":\"r1\",\"provider\":\"aws\",\"gpuType\":\"a100\",\"gpuCount\":8,\"hourlyRate\":32},{\"id\":\"r1\",\"provider\":\"aws\",\"gpuType\":\"a100\",\"hourlyRate\":32}]}"
RES_NO_HOURLY_RATE == "{\"resources\":[{\"id\":\"r1\",\"provider\":\"aws\",\"gpuType\":\"a100\",\"gpuCount\":8,\"hourlyRate\":32,\"region\":\"us\",\"labels\":{\"env\":\"prod\"}},{\"id\":\"r1\",\"provider\":\"aws\",\"gpuType\":\"a100\",\"gpuCount\":8}]}"

ResourceChunks ==
  {RES_FULL, RES_MIN, RES_NO_ID, RES_NO_PROVIDER, RES_NO_GPU_TYPE, RES_NO_GPU_COUNT,
   RES_NO_HOURLY_RATE}

WireResource(id, provider, gpuType, gpuCount, hourlyRate, region, labels) ==
  [id |-> id, provider |-> provider, gpuType |-> gpuType, gpuCount |-> gpuCount,
   hourlyRate |-> hourlyRate, region |-> region, labels |-> labels]

FullResource ==
  WireResource(Some("r1"), Some("aws"), Some("a100"), Some(8), Some(32), Some("us"),
               Some({<<"env", "prod">>}))
MinResource == [FullResource EXCEPT !.region = None, !.labels = None]

ResourcesDict(resources) == EmptyDict @@ [resources |-> Some(resources)]

\* Documents the other Enzan endpoints and the Sozo schemas endpoint answer with
OBJ_BURN == "{\"burn_rate_usd_per_hour\":12,\"timestamp\":\"t0\"}"
OBJ_ID == "{\"id\":\"r1\"}"
ALERTS_FULL == "{\"alerts\":[{\"id\":\"a1\",\"name\":\"spend\",\"type\":\"cost_threshold\",\"threshold\":100,\"window\":\"24h\",\"enabled\":false}]}"
ALERTS_MIN == "{\"alerts\":[{\"id\":\"a1\",\"name\":\"spend\",\"type\":\"cost_threshold\",\"threshold\":100,\"window\":\"24h\"}]}"
ALERTS_NO_NAME == "{\"alerts\":[{\"id\":\"a1\",\"name\":\"spend\",\"type\":\"cost_threshold\",\"threshold\":100,\"window\":\"24h\",\"enabled\":false},{\"id\":\"a1\",\"type\":\"cost_threshold\",\"threshold\":100,\"window\":\"24h\"}]}"
SCHEMAS_FULL == "{\"schemas\":[{\"name\":\"users\",\"columns\":{\"id\":\"uuid4\"}}]}"
SCHEMAS_NO_COLUMNS == "{\"schemas\":[{\"name\":\"users\"}]}"

EnzanChunks == {OBJ_BURN, OBJ_ID, ALERTS_FULL, ALERTS_MIN, ALERTS_NO_NAME}
SchemaChunks == {SCHEMAS_FULL, SCHEMAS_NO_COLUMNS}

WireAlert(id, name, type, threshold, window, enabled) ==
  [id |-> id, name |-> name, type |-> type, threshold |-> threshold,
   window |-> window, enabled |-> enabled]

FullAlert ==
  WireAlert(Some("a1"), Some("spend"), Some("cost_threshold"), Some(100), Some("24h"),
            Some(FALSE))
MinAlert == [FullAlert EXCEPT !.enabled = None]

WireSchema(name, columns) == [name |-> name, columns |-> columns]

\* Every JSON document of the model
JsonDocuments ==
  JsonChunks \cup AkumaChunks \cup SummaryChunks \cup ResourceChunks \cup EnzanChunks
    \cup SchemaChunks

Parsed(type, dict) == [type |-> type, dict |-> dict]
ValueError == Parsed("ValueError", EmptyDict)

\* json.loads of one JSON document
loads(chunk) ==
  CASE chunk = OBJ_ERROR -> Parsed("dict", Dict(Some(<<"bad key">>), None))
    [] chunk = OBJ_ERROR_EMPTY -> Parsed("dict", Dict(Some(<<>>), None))
    [] chunk = OBJ_SQL -> Parsed("dict", Dict(None, Some(<<"select 1">>)))
    [] chunk = OBJ_EMPTY -> Parsed("dict", EmptyDict)
    [] chunk = ARRAY -> Parsed("list", EmptyDict)
    [] chunk = SCALAR -> Parsed("bool", EmptyDict)
    [] chunk = OBJ_SOFT_ERROR ->
         Parsed("dict", Dict(Some(<<"unsafe">>), Some(<<"select 1">>)))
    [] chunk = OBJ_ROWS ->
         Parsed("dict", Dict(None, Some(<<"select 1">>)) @@
                        [rows |-> Some(<<"{n:1}">>), tables |-> Some(<<"t">>)])
    [] chunk = OBJ_EXPLAINED ->
         Parsed("dict", Dict(None, Some(<<"select 2">>)) @@
                        [explanation |-> Some(<<"two">>)])
    [] chunk = OBJ_STATUS ->
         Parsed("dict", EmptyDict @@ [status |-> Some(<<"ok">>), tables |-> Some(2)])
    [] chunk = SUM_FULL ->
         Parsed("dict", SummaryDict(
           Some("7d"), Some(<<"t0">>), Some(<<"t1">>),
           Some(Some(<<[NoRow EXCEPT !.cost_usd = Number(3), !.gpu_hours = Number(1),
                                     !.requests = Number(2), !.tokens_in = Number(5),
                                     !.tokens_out = Number(7), !.project = Some("p"),
                                     !.endpoint = Some("/v1/akuma/query")],
                       [NoRow EXCEPT !.cost_usd = Number(4), !.model = Some("m")]>>)),
           Some(Some([cost_usd |-> Number(7), gpu_hours |-> Number(1),
                      requests |-> Number(2)])),
           Some(ApiCosts(Some(4), Some(1000), Some(200), Some(5)))))
    [] chunk = SUM_BARE ->
         Parsed("dict", SummaryDict(None, None, None, Some(Some(<<NoRow>>)), None, None))
    [] chunk = SUM_NULL_COST ->
         Parsed("dict", SummaryDict(
           None, None, None,
           Some(Some(<<[NoRow EXCEPT !.cost_usd = Null, !.requests = Number(2)]>>)),
           Some(Some([NoTotal EXCEPT !.cost_usd = Null])), None))
    [] chunk = SUM_NULL_TOTAL ->
         Parsed("dict", SummaryDict(None, None, None, Some(Some(<<>>)), Null, None))
    [] chunk = SUM_NULL_ROWS ->
         Parsed("dict", SummaryDict(None, None, None, Null, None, None))
    [] chunk = RES_FULL -> Parsed("dict", ResourcesDict(<<FullResource>>))
    [] chunk = RES_MIN -> Parsed("dict", ResourcesDict(<<MinResource, FullResource>>))
    [] chunk = RES_NO_ID ->
         Parsed("dict", ResourcesDict(<<[MinResource EXCEPT !.id = None]>>))
    [] chunk = RES_NO_PROVIDER ->
         Parsed("dict", ResourcesDict(<<[MinResource EXCEPT !.provider = None]>>))
    [] chunk = RES_NO_GPU_TYPE ->
         Parsed("dict", ResourcesDict(<<MinResource,
                                        [MinResource EXCEPT !.gpuType = None]>>))
    [] chunk = RES_NO_GPU_COUNT ->
         Parsed("dict", ResourcesDict(<<MinResource,
                                        [MinResource EXCEPT !.gpuCount = None]>>))
    [] chunk = RES_NO_HOURLY_RATE ->
         Parsed("dict", ResourcesDict(<<FullResource,
                                        [MinResource EXCEPT !.hourlyRate = None]>>))
    [] chunk = OBJ_BURN ->
         Parsed("dict", EmptyDict @@ [burn_rate_usd_per_hour |-> Some(12),
                                      timestamp |-> Some(<<"t0">>)])
    [] chunk = OBJ_ID -> Parsed("dict", EmptyDict @@ [id |-> Some("r1")])
    [] chunk = ALERTS_FULL -> Parsed("dict", EmptyDict @@ [alerts |-> Some(<<FullAlert>>)])
    [] chunk = ALERTS_MIN -> Parsed("dict", EmptyDict @@ [alerts |-> Some(<<MinAlert>>)])
    [] chunk = ALERTS_NO_NAME ->
         Parsed("dict", EmptyDict @@
                        [alerts |-> Some(<<FullAlert, [MinAlert EXCEPT !.name = None]>>)])
    [] chunk = SCHEMAS_FULL ->
         Parsed("dict", EmptyDict @@
                        [schemas |-> Some(<<WireSchema(Some("users"),
                                                       Some({<<"id", "uuid4">>}))>>)])
    [] chunk = SCHEMAS_NO_COLUMNS ->
         Parsed("dict", EmptyDict @@
                        [schemas |-> Some(<<WireSchema(Some("users"), None)>>)])

\* response.json(): one JSON document, whitespace allowed around it
response_json(text) ==
  LET core == strip(text)
  IN  IF Len(core) = 1 /\ core[1] \in JsonDocuments THEN loads(core[1]) ELSE ValueError

\* dict.get(key)
get_error(dict) == dict.error

\* dict.get(key) of any key: None when the key is absent
dict_get(dict, key) == IF key \in DOMAIN dict THEN dict[key] ELSE None

\* dict.get(key, default): the value of the key, the default when it is absent
dict_get_or(dict, key, default) ==
  IF dict_get(dict, key) # None THEN dict_get(dict, key) ELSE Some(default)

\* dict.get(key, default) of a key whose JSON value may be null: the default
\* when the key is absent, None when its value is null
value_or(dict, key, default) ==
  IF dict_get(dict, key) # None THEN dict_get(dict, key)[1] ELSE default

\* truth value of an optional text: None and "" are falsy
Truthy(opt) == opt # None /\ opt[1] # <<>>

----------------------------------------------------------------------------
\* Response headers

\* int(s) for a header value: its value when s is a run of digits
Digits == {"0", "3"}
DigitVal(c) == IF c = "3" THEN 3 ELSE 0

RECURSIVE int_value(_)
int_value(s) == IF s = <<>> THEN 0 ELSE 10 * int_value(SubSeq(s, 1, Len(s) - 1)) + DigitVal(s[Len(s)])

IsInt(s) == s # <<>> /\ \A i \in 1..Len(s) : s[i] \in Digits

----------------------------------------------------------------------------
\* Error taxonomy.  retry_after is None on the kinds that have no such
\* attribute; request_id is None in the flat module, whose errors have none.

Exc(exc, message, status, code, request_id, retry_after) ==
  [exc |-> exc, message |-> message, status |-> status, code |-> code,
   request_id |-> request_id, retry_after |-> retry_after]

KaizenError(message, status, code, request_id) ==
  Exc("KaizenError", message, status, code, request_id, None)

\* Mutant: the message of the response is dropped for the default one
KaizenAuthError_default_message(message, request_id) ==
  Exc("KaizenAuthError", <<"Invalid or missing API key">>, Some(401),
      Some("AUTH_ERROR"), request_id, None)

KaizenAuthError(message, request_id) ==
  Exc("KaizenAuthError", message, Some(401), Some("AUTH_ERROR"), request_id, None)

KaizenRateLimitError(message, retry_after, request_id) ==
  Exc("KaizenRateLimitError", message, Some(429), Some("RATE_LIMIT"), request_id, retry_after)

KaizenValidationError(message, request_id) ==
  Exc("KaizenValidationError", message, Some(400), Some("VALIDATION_ERROR"), request_id, None)

\* An exception of the Python runtime, outside the taxonomy
Builtin(exc) == Exc(exc, <<>>, None, None, None, None)

NoError == Builtin("")

KaizenKinds ==
  {"KaizenError", "KaizenAuthError", "KaizenRateLimitError", "KaizenValidationError"}

----------------------------------------------------------------------------
\* Outcomes of a call, requests and transport answers

NoValue == Parsed("", EmptyDict)

Return(value) == [kind |-> "return", value |-> value, error |-> NoError]
Raise(error) == [kind |-> "raise", value |-> NoValue, error |-> error]
Pending == [kind |-> "none", value |-> NoValue, error |-> NoError]

Headers(user_agent, content_type, authorization) ==
  [user_agent |-> user_agent, content_type |-> content_type,
   authorization |-> authorization]

Payload(records, schema, schemaName, correlations, seed) ==
  [records |-> records, schema |-> schema, schemaName |-> schemaName,
   correlations |-> correlations, seed |-> seed]

Request(method, url, headers, json) ==
  [method |-> method, url |-> url, headers |-> headers, json |-> json]

Response(status, retry_after, request_id, text) ==
  [kind |-> "response", status |-> status, retry_after |-> retry_after,
   request_id |-> request_id, text |-> text]

RequestError == [Response(0, None, None, <<>>) EXCEPT !.kind = "RequestError"]
NoAnswer == [Response(0, None, None, <<>>) EXCEPT !.kind = "none"]

\* What one run of a handler did: the requests it handed to the transport,
\* and what its caller got.
Ran(sent, outcome) == [sent |-> sent, outcome |-> outcome]

----------------------------------------------------------------------------
\* Transport adapter of the package tree (kaizen/http.py)

SDK_VERSION == "1.0.0"

\* Mutant: a JSON value that is not an object is wrapped as an error text
_parse_json_wrapping(text) ==
  LET parsed == response_json(text)
  IN  IF parsed.type = "dict"
      THEN parsed.dict
      ELSE LET stripped == strip(text)
           IN  IF stripped # <<>> THEN Dict(Some(stripped), None) ELSE EmptyDict

\* Mutant: the fallback keeps the raw text, whitespace included
_parse_json_raw_text(text) ==
  LET parsed == response_json(text)
  IN  IF parsed.type = "ValueError"
      THEN IF text # <<>> THEN Dict(Some(text), None) ELSE EmptyDict
      ELSE IF parsed.type = "dict" THEN parsed.dict ELSE EmptyDict

_parse_json(text) ==
  LET parsed == response_json(text)
  IN  IF parsed.type = "ValueError"
      THEN LET stripped == strip(text)
           IN  IF stripped # <<>> THEN Dict(Some(stripped), None) ELSE EmptyDict
      ELSE IF parsed.type = "dict" THEN parsed.dict ELSE EmptyDict

request_headers(api_key, method) ==
  Headers(Some(<<"kaizen-python/", SDK_VERSION>>),
          IF method # "GET" THEN Some("application/json") ELSE None,
          IF api_key # "" THEN Some(<<"Bearer ", api_key>>) ELSE None)

\* Mutant: an absent header counts as zero seconds
retry_after_seconds_or_zero(retry_after) ==
  IF Truthy(retry_after) THEN Some(int_value(retry_after[1])) ELSE Some(0)

\* int(retry_after) if retry_after else None, where int() has a value
retry_after_seconds(retry_after) ==
  IF Truthy(retry_after) THEN Some(int_value(retry_after[1])) ELSE None

\* int(retry_after) raises ValueError
int_raises(retry_after) == Truthy(retry_after) /\ ~IsInt(retry_after[1])

\* Mutant: status 400 itself passes as a success
is_error_status_above(status) == status > 400

\* response.status_code >= 400
is_error_status(status) == status >= 400

classify(response) ==
  LET data == _parse_json(response.text)
      request_id == response.request_id
      message == str(IF Truthy(get_error(data)) THEN get_error(data)[1]
                     ELSE <<"Request failed">>)
  IN  IF response.status = 401
      THEN Raise(KaizenAuthError(message, request_id))
      ELSE IF response.status = 429
      THEN IF int_raises(response.retry_after)
           THEN Raise(Builtin("ValueError"))
           ELSE Raise(KaizenRateLimitError(message,
                        retry_after_seconds(response.retry_after), request_id))
      ELSE IF is_error_status(response.status)
      THEN Raise(KaizenError(message, Some(response.status), None, request_id))
      ELSE Return(Parsed("dict", data))

\* Mutant: a request that failed is sent a second time
_request_retrying(base_url, api_key, method, path, json_data, answer) ==
  LET url == <<base_url, path>>
      headers == request_headers(api_key, method)
      request == Request(method, url, headers, json_data)
  IN  Ran(IF answer.kind = "RequestError" \/ answer.status >= 400
          THEN <<request, request>> ELSE <<request>>,
          IF answer.kind = "RequestError"
          THEN Raise(KaizenError(<<"Request failed: ", "RequestError">>,
                                 None, None, None))
          ELSE classify(answer))

_request(base_url, api_key, method, path, json_data, answer) ==
  LET url == <<base_url, path>>
      headers == request_headers(api_key, method)
  IN  Ran(<<Request(method, url, headers, json_data)>>,
          IF answer.kind = "RequestError"
          THEN Raise(KaizenError(<<"Request failed: ", "RequestError">>,
                                 None, None, None))
          ELSE classify(answer))

----------------------------------------------------------------------------
\* Transport adapter of the flat module (kaizen/__init__.py)

flat_headers(api_key) ==
  Headers(None, Some("application/json"), Some(<<"Bearer ", api_key>>))

\* data.get("error", default)
get_error_or(dict, default) ==
  IF get_error(dict) # None THEN get_error(dict)[1] ELSE default

flat_classify(response) ==
  LET data == response_json(response.text)
  IN  IF data.type = "ValueError"
      THEN Raise(Builtin("JSONDecodeError"))
      ELSE IF response.status \in {401, 429} \/ response.status >= 400
      THEN IF data.type # "dict"
           THEN Raise(Builtin("AttributeError"))
           ELSE IF response.status = 401
           THEN Raise(KaizenAuthError(
                        get_error_or(data.dict, <<"Authentication failed">>), None))
           ELSE IF response.status = 429
           THEN IF int_raises(response.retry_after)
                THEN Raise(Builtin("ValueError"))
                ELSE Raise(KaizenRateLimitError(
                             get_error_or(data.dict, <<"Rate limit exceeded">>),
                             retry_after_seconds(response.retry_after), None))
           ELSE Raise(KaizenError(get_error_or(data.dict, <<"Request failed">>),
                                  Some(response.status), None, None))
      ELSE Return(data)

flat_request(base_url, api_key, method, path, json_data, answer) ==
  LET url == <<base_url, path>>
      headers == flat_headers(api_key)
  IN  Ran(<<Request(method, url, headers, json_data)>>,
          IF answer.kind = "RequestError"
          THEN Raise(KaizenError(<<"Request failed: ", "RequestError">>,
                                 None, None, None))
          ELSE flat_classify(answer))

----------------------------------------------------------------------------
\* The adapter of either tree, and its public methods

http_request(tree, base_url, api_key, method, path, json_data, answer) ==
  IF tree = "package"
  THEN _request(base_url, api_key, method, path, json_data, answer)
  ELSE flat_request(base_url, api_key, method, path, json_data, answer)

get(tree, base_url, api_key, path, answer) ==
  http_request(tree, base_url, api_key, "GET", path, None, answer)

post(tree, base_url, api_key, path, data, answer) ==
  http_request(tree, base_url, api_key, "POST", path, Some(data), answer)

----------------------------------------------------------------------------
\* Model objects (kaizen/models): Guardrails

Guardrails(read_only, allow_tables, deny_tables, deny_columns, max_rows, timeout_secs) ==
  [read_only |-> read_only, allow_tables |-> allow_tables,
   deny_tables |-> deny_tables, deny_columns |-> deny_columns,
   max_rows |-> max_rows, timeout_secs |-> timeout_secs]

\* truth value of an optional list or int: None, [] and 0 are falsy
TruthyList(opt) == opt # None /\ opt[1] # <<>>
TruthyInt(opt) == opt # None /\ opt[1] # 0

\* A key of the payload is absent when its value is None.
GuardrailsPayload(readOnly, allowTables, denyTables, denyColumns, maxRows, timeoutSecs) ==
  [readOnly |-> readOnly, allowTables |-> allowTables,
   denyTables |-> denyTables, denyColumns |-> denyColumns,
   maxRows |-> maxRows, timeoutSecs |-> timeoutSecs]

\* Guardrails.to_dict
to_dict(self) ==
  GuardrailsPayload(Some(self.read_only),
                    IF TruthyList(self.allow_tables) THEN self.allow_tables ELSE None,
                    IF TruthyList(self.deny_tables) THEN self.deny_tables ELSE None,
                    IF TruthyList(self.deny_columns) THEN self.deny_columns ELSE None,
                    IF TruthyInt(self.max_rows) THEN self.max_rows ELSE None,
                    IF TruthyInt(self.timeout_secs) THEN self.timeout_secs ELSE None)

GuardrailsValues ==
  {Guardrails(read_only, allow_tables, deny_tables, None, max_rows, timeout_secs) :
     read_only \in BOOLEAN, allow_tables \in {None, Some(<<>>), Some(<<"users">>)},
     deny_tables \in {None, Some(<<"secrets">>)},
     max_rows \in {None, Some(0), Some(100), Some(-1)},
     timeout_secs \in {None, Some(0), Some(30)}}

----------------------------------------------------------------------------
\* Model objects (kaizen/models): SozoGenerateResponse.  A string is the
\* sequence of its characters; a row is a dict in insertion order, the
\* sequence of its <<key, value>> items, a value being None or Some(string).

COMMA == ","
QUOTE == "\""
NEWLINE == "\n"
BACKSLASH == "\\"

SozoGenerateResponse(columns, rows) == [columns |-> columns, rows |-> rows]

\* sep.join(items)
RECURSIVE join(_, _)
join(sep, items) ==
  IF items = <<>> THEN <<>>
  ELSE IF Len(items) = 1 THEN items[1]
  ELSE items[1] \o sep \o join(sep, Tail(items))

\* char in raw
contains(raw, char) == \E i \in DOMAIN raw : raw[i] = char

\* raw.replace(old, new), old being one character
RECURSIVE replace(_, _, _)
replace(raw, old, new) ==
  IF raw = <<>> THEN <<>>
  ELSE (IF raw[1] = old THEN new ELSE <<raw[1]>>) \o replace(Tail(raw), old, new)

\* row.get(key)
row_get(row, key) ==
  IF \E i \in DOMAIN row : row[i][1] = key
  THEN row[CHOOSE i \in DOMAIN row : row[i][1] = key][2]
  ELSE None

\* Mutant: only a comma makes a cell quoted
escape_comma_only(value) ==
  IF value = None THEN <<>>
  ELSE LET raw == str(value[1])
       IN  IF contains(raw, COMMA)
           THEN <<QUOTE>> \o replace(raw, QUOTE, <<QUOTE, QUOTE>>) \o <<QUOTE>>
           ELSE raw

\* escape, the local function of to_csv
escape(value) ==
  IF value = None THEN <<>>
  ELSE LET raw == str(value[1])
       IN  IF contains(raw, COMMA) \/ contains(raw, QUOTE)
           THEN <<QUOTE>> \o replace(raw, QUOTE, <<QUOTE, QUOTE>>) \o <<QUOTE>>
           ELSE raw

\* SozoGenerateResponse.to_csv
to_csv(self) ==
  LET line(row) == join(<<COMMA>>, [c \in DOMAIN self.columns |->
                                      escape(row_get(row, self.columns[c]))])
      lines == <<join(<<COMMA>>, self.columns)>> \o
               [r \in DOMAIN self.rows |-> line(self.rows[r])]
  IN  join(<<NEWLINE>>, lines)

\* json.dumps of a str: quoted, with the escapes of the characters
encode_char(char) ==
  CASE char = QUOTE -> <<BACKSLASH, QUOTE>>
    [] char = BACKSLASH -> <<BACKSLASH, BACKSLASH>>
    [] char = NEWLINE -> <<BACKSLASH, "n">>
    [] OTHER -> <<char>>

RECURSIVE encode_chars(_)
encode_chars(text) ==
  IF text = <<>> THEN <<>> ELSE encode_char(text[1]) \o encode_chars(Tail(text))

dumps_str(text) == <<QUOTE>> \o encode_chars(text) \o <<QUOTE>>

\* json.dumps of a value: null for None
dumps_value(value) ==
  IF value = None THEN <<"n", "u", "l", "l">> ELSE dumps_str(value[1])

\* Mutant: the keys are written last to first
dumps_reversed(row) ==
  <<"{">> \o
  join(<<COMMA, " ">>, [i \in DOMAIN row |->
                          dumps_str(row[Len(row) + 1 - i][1]) \o <<":", " ">> \o
                          dumps_value(row[Len(row) + 1 - i][2])]) \o
  <<"}">>

\* json.dumps(row) with the default separators ", " and ": "
dumps(row) ==
  <<"{">> \o
  join(<<COMMA, " ">>, [i \in DOMAIN row |->
                          dumps_str(row[i][1]) \o <<":", " ">> \o dumps_value(row[i][2])]) \o
  <<"}">>

\* SozoGenerateResponse.to_jsonl
to_jsonl(self) ==
  join(<<NEWLINE>>, [r \in DOMAIN self.rows |-> dumps(self.rows[r])])

----------------------------------------------------------------------------
\* Sozo service client (the same code in both trees)

\* truth value of an optional dict or str: None, {} and "" are falsy
TruthyDict(opt) == opt # None /\ opt[1] # {}
TruthyStr(opt) == opt # None /\ opt[1] # ""

generate_payload(records, schema, schema_name, correlations, seed) ==
  Payload(Some(records),
          IF TruthyDict(schema) THEN schema ELSE None,
          IF TruthyStr(schema_name) THEN schema_name ELSE None,
          IF TruthyDict(correlations) THEN correlations ELSE None,
          IF seed # None THEN seed ELSE None)

\* Mutant: only None counts as missing, an empty schema or name passes
requires_schema_none_only(schema, schema_name) ==
  schema = None /\ schema_name = None

\* not schema and not schema_name
requires_schema(schema, schema_name) ==
  ~TruthyDict(schema) /\ ~TruthyStr(schema_name)

\* The bodies of this model carry no columns, rows or stats key, so the
\* response built from a result object holds the defaults of all three.
generate(tree, base_url, api_key, records, schema, schema_name, correlations, seed, answer) ==
  IF requires_schema(schema, schema_name)
  THEN Ran(<<>>, Raise(KaizenValidationError(
                         <<"Either schema or schema_name is required">>, None)))
  ELSE LET payload == generate_payload(records, schema, schema_name,
                                       correlations, seed)
           ran == post(tree, base_url, api_key, "/v1/sozo/generate", payload,
                       answer)
       IN  IF ran.outcome.kind = "raise"
           THEN ran
           ELSE IF ran.outcome.value.type # "dict"
           THEN Ran(ran.sent, Raise(Builtin("AttributeError")))
           ELSE Ran(ran.sent, Return(Parsed("SozoGenerateResponse", EmptyDict)))

\* KaizenClient.health
health(tree, base_url, api_key, answer) ==
  get(tree, base_url, api_key, "/health", answer)

\* KaizenClient.__init__: api_key or os.environ.get("KAIZEN_API_KEY", "")
resolved_key(api_key, environ) ==
  IF TruthyStr(api_key) THEN api_key[1]
  ELSE IF environ # None THEN environ[1] ELSE ""

----------------------------------------------------------------------------
\* What a service method makes of the adapter's result

\* Mutant: an error field in the result is raised as an exception
map_result_raising_error_field(ran, type, fields) ==
  IF ran.outcome.kind = "raise"
  THEN ran
  ELSE IF ran.outcome.value.type # "dict"
  THEN Ran(ran.sent, Raise(Builtin("AttributeError")))
  ELSE IF get_error(ran.outcome.value.dict) # None
  THEN Ran(ran.sent, Raise(KaizenError(<<"Request failed">>, None, None, None)))
  ELSE Ran(ran.sent, Return(Parsed(type, fields)))

\* The method reads the result with .get, which only an object has; an error
\* of the adapter passes through the method untouched.
map_result(ran, type, fields) ==
  IF ran.outcome.kind = "raise"
  THEN ran
  ELSE IF ran.outcome.value.type # "dict"
  THEN Ran(ran.sent, Raise(Builtin("AttributeError")))
  ELSE Ran(ran.sent, Return(Parsed(type, fields)))

----------------------------------------------------------------------------
\* Akuma service client (kaizen/services/akuma.py)

QueryPayload(dialect, prompt, mode, maxRows, guardrails) ==
  [dialect |-> dialect, prompt |-> prompt, mode |-> mode, maxRows |-> maxRows,
   guardrails |-> guardrails]

AkumaQueryResponse(sql, rows, explanation, tables, warnings, error) ==
  [sql |-> sql, rows |-> rows, explanation |-> explanation, tables |-> tables,
   warnings |-> warnings, error |-> error]

AkumaExplainResponse(sql, explanation) == [sql |-> sql, explanation |-> explanation]

AkumaTable(name, description, primary_key) ==
  [name |-> name, description |-> description, columns |-> <<>>,
   primary_key |-> primary_key, foreign_keys |-> None]

\* AkumaTable.to_dict
table_to_dict(table) ==
  [name |-> Some(table.name), description |-> Some(table.description),
   columns |-> Some(table.columns),
   primaryKey |-> IF TruthyList(table.primary_key) THEN table.primary_key ELSE None,
   foreignKeys |-> IF TruthyList(table.foreign_keys) THEN table.foreign_keys ELSE None]

AkumaSchemaResponse(status, tables) == [status |-> status, tables |-> tables]

\* AkumaClient.query
query(tree, base_url, api_key, dialect, prompt, mode, max_rows, guardrails, answer) ==
  LET payload == QueryPayload(Some(dialect), Some(prompt), Some(mode),
                              IF TruthyInt(max_rows) THEN max_rows ELSE None,
                              IF guardrails # None THEN Some(to_dict(guardrails[1]))
                              ELSE None)
      mapped(ran) ==
        LET result == ran.outcome.value.dict
        IN  map_result(ran, "AkumaQueryResponse",
                       AkumaQueryResponse(dict_get_or(result, "sql", <<>>),
                                          dict_get(result, "rows"),
                                          dict_get(result, "explanation"),
                                          dict_get(result, "tables"),
                                          dict_get(result, "warnings"),
                                          dict_get(result, "error")))
  IN  mapped(post(tree, base_url, api_key, "/v1/akuma/query", payload, answer))

\* AkumaClient.explain
explain(tree, base_url, api_key, sql, answer) ==
  LET mapped(ran) ==
        LET result == ran.outcome.value.dict
        IN  map_result(ran, "AkumaExplainResponse",
                       AkumaExplainResponse(dict_get_or(result, "sql", sql),
                                            dict_get_or(result, "explanation", <<>>)))
  IN  mapped(post(tree, base_url, api_key, "/v1/akuma/explain", [sql |-> Some(sql)],
             answer))

\* AkumaClient.set_schema
set_schema(tree, base_url, api_key, tables, version, answer) ==
  LET payload == [tables |-> Some([i \in DOMAIN tables |-> table_to_dict(tables[i])]),
                  version |-> IF TruthyStr(version) THEN version ELSE None]
      mapped(ran) ==
        LET result == ran.outcome.value.dict
        IN  map_result(ran, "AkumaSchemaResponse",
                       AkumaSchemaResponse(dict_get_or(result, "status", <<>>),
                                           dict_get_or(result, "tables", 0)))
  IN  mapped(post(tree, base_url, api_key, "/v1/akuma/schema", payload, answer))

----------------------------------------------------------------------------
\* Enzan service client (kaizen/services/enzan.py)

EnzanSummaryRow(cost_usd, gpu_hours, requests, tokens_in, tokens_out, project, model, team, provider) ==
  [cost_usd |-> cost_usd, gpu_hours |-> gpu_hours, requests |-> requests,
   tokens_in |-> tokens_in, tokens_out |-> tokens_out, project |-> project,
   model |-> model, team |-> team, provider |-> provider]

EnzanSummaryResponse(window, start_time, end_time, rows, total_cost_usd, total_gpu_hours, total_requests) ==
  [window |-> window, start_time |-> start_time, end_time |-> end_time,
   rows |-> rows, total_cost_usd |-> total_cost_usd,
   total_gpu_hours |-> total_gpu_hours, total_requests |-> total_requests]

\* One row of the list comprehension of summary
summary_row(row) ==
  EnzanSummaryRow(value_or(row, "cost_usd", Some(0)),
                  value_or(row, "gpu_hours", Some(0)),
                  value_or(row, "requests", Some(0)),
                  value_or(row, "tokens_in", Some(0)),
                  value_or(row, "tokens_out", Some(0)),
                  dict_get(row, "project"), dict_get(row, "model"),
                  dict_get(row, "team"), dict_get(row, "provider"))

\* EnzanClient.summary.  Iterating over rows = None raises TypeError, and
\* total.get on total = None raises AttributeError.
summary(tree, base_url, api_key, window, group_by, filters, answer) ==
  LET payload == [window |-> Some(window),
                  groupBy |-> IF TruthyList(group_by) THEN group_by ELSE None,
                  filters |-> IF TruthyDict(filters) THEN filters ELSE None]
      mapped(ran) ==
        LET result == ran.outcome.value.dict
            has_result == ran.outcome.kind = "return" /\ ran.outcome.value.type = "dict"
            wire_rows == value_or(result, "rows", Some(<<>>))
            total == value_or(result, "total", Some(NoTotal))
        IN  IF has_result /\ wire_rows = None
            THEN Ran(ran.sent, Raise(Builtin("TypeError")))
            ELSE IF has_result /\ total = None
            THEN Ran(ran.sent, Raise(Builtin("AttributeError")))
            ELSE map_result(ran, "EnzanSummaryResponse",
                   EnzanSummaryResponse(
                     dict_get_or(result, "window", window),
                     dict_get_or(result, "startTime", <<>>),
                     dict_get_or(result, "endTime", <<>>),
                     [i \in DOMAIN wire_rows[1] |-> summary_row(wire_rows[1][i])],
                     value_or(total[1], "cost_usd", Some(0)),
                     value_or(total[1], "gpu_hours", Some(0)),
                     value_or(total[1], "requests", Some(0))))
  IN  mapped(post(tree, base_url, api_key, "/v1/enzan/summary", payload, answer))

EnzanResource(id, provider, gpu_type, gpu_count, hourly_rate, region, labels) ==
  [id |-> id, provider |-> provider, gpu_type |-> gpu_type, gpu_count |-> gpu_count,
   hourly_rate |-> hourly_rate, region |-> region, labels |-> labels]

RequiredResourceKeys == {"id", "provider", "gpuType", "gpuCount", "hourlyRate"}

\* Mutant: only a missing id is a fault, the other fields default to None
lacks_required_identity_only(resource) == dict_get(resource, "id") = None

\* resource[key] raises KeyError for one of the subscripted keys
lacks_required(resource) ==
  \E key \in RequiredResourceKeys : dict_get(resource, key) = None

\* EnzanClient.list_resources
list_resources(tree, base_url, api_key, answer) ==
  LET mapped(ran) ==
        LET result == ran.outcome.value.dict
            has_result == ran.outcome.kind = "return" /\ ran.outcome.value.type = "dict"
            resources == dict_get_or(result, "resources", <<>>)[1]
        IN  IF has_result /\ \E i \in DOMAIN resources : lacks_required(resources[i])
            THEN Ran(ran.sent, Raise(Builtin("KeyError")))
            ELSE map_result(ran, "list[EnzanResource]",
                   [i \in DOMAIN resources |->
                      EnzanResource(resources[i].id, resources[i].provider,
                                    resources[i].gpuType, resources[i].gpuCount,
                                    resources[i].hourlyRate,
                                    dict_get(resources[i], "region"),
                                    dict_get(resources[i], "labels"))])
  IN  mapped(get(tree, base_url, api_key, "/v1/enzan/resources", answer))

EnzanBurnResponse(burn_rate_usd_per_hour, timestamp) ==
  [burn_rate_usd_per_hour |-> burn_rate_usd_per_hour, timestamp |-> timestamp]

\* EnzanClient.burn: a typed response in the package tree, the adapter's
\* result as it is in the flat module
burn(tree, base_url, api_key, answer) ==
  LET mapped(ran) ==
        LET result == ran.outcome.value.dict
        IN  IF tree = "flat"
            THEN ran
            ELSE map_result(ran, "EnzanBurnResponse",
                   EnzanBurnResponse(dict_get_or(result, "burn_rate_usd_per_hour", 0),
                                     dict_get_or(result, "timestamp", <<>>)))
  IN  mapped(get(tree, base_url, api_key, "/v1/enzan/burn", answer))

\* EnzanClient.register_resource returns the adapter's result as it is
register_resource(tree, base_url, api_key, resource, answer) ==
  LET payload == [id |-> resource.id, provider |-> resource.provider,
                  gpuType |-> resource.gpu_type, gpuCount |-> resource.gpu_count,
                  hourlyRate |-> resource.hourly_rate,
                  region |-> IF TruthyStr(resource.region) THEN resource.region
                             ELSE None,
                  labels |-> IF TruthyDict(resource.labels) THEN resource.labels
                             ELSE None]
  IN  post(tree, base_url, api_key, "/v1/enzan/resources", payload, answer)

EnzanAlert(id, name, type, threshold, window, enabled) ==
  [id |-> id, name |-> name, type |-> type, threshold |-> threshold,
   window |-> window, enabled |-> enabled]

\* EnzanClient.list_alerts
list_alerts(tree, base_url, api_key, answer) ==
  LET mapped(ran) ==
        LET result == ran.outcome.value.dict
            has_result == ran.outcome.kind = "return" /\ ran.outcome.value.type = "dict"
            alerts == dict_get_or(result, "alerts", <<>>)[1]
        IN  IF has_result /\ \E i \in DOMAIN alerts :
                               \E key \in {"id", "name", "type", "threshold", "window"} :
                                 dict_get(alerts[i], key) = None
            THEN Ran(ran.sent, Raise(Builtin("KeyError")))
            ELSE map_result(ran, "list[EnzanAlert]",
                   [i \in DOMAIN alerts |->
                      EnzanAlert(alerts[i].id, alerts[i].name, alerts[i].type,
                                 alerts[i].threshold, alerts[i].window,
                                 dict_get_or(alerts[i], "enabled", TRUE))])
  IN  mapped(get(tree, base_url, api_key, "/v1/enzan/alerts", answer))

\* EnzanClient.create_alert returns the adapter's result as it is
create_alert(tree, base_url, api_key, alert, answer) ==
  post(tree, base_url, api_key, "/v1/enzan/alerts",
       [id |-> alert.id, name |-> alert.name, type |-> alert.type,
        threshold |-> alert.threshold, window |-> alert.window,
        enabled |-> alert.enabled],
       answer)

SozoSchemaInfo(name, columns) == [name |-> name, columns |-> columns]

\* SozoClient.list_schemas
list_schemas(tree, base_url, api_key, answer) ==
  LET mapped(ran) ==
        LET result == ran.outcome.value.dict
            has_result == ran.outcome.kind = "return" /\ ran.outcome.value.type = "dict"
            schemas == dict_get_or(result, "schemas", <<>>)[1]
        IN  IF has_result /\ \E i \in DOMAIN schemas :
                               \E key \in {"name", "columns"} : dict_get(schemas[i], key) = None
            THEN Ran(ran.sent, Raise(Builtin("KeyError")))
            ELSE map_result(ran, "list[SozoSchemaInfo]",
                   [i \in DOMAIN schemas |->
                      SozoSchemaInfo(schemas[i].name, schemas[i].columns)])
  IN  mapped(get(tree, base_url, api_key, "/v1/sozo/schemas", answer))

----------------------------------------------------------------------------
\* Inputs of the model

Trees == {"package", "flat"}
DefaultBaseUrl == "https://api.kaizenaisystems.com"
BaseUrls == {DefaultBaseUrl, "http://localhost:8080"}
ApiKeys == {"", "sk-1"}
KeyArgs == {None} \cup {Some(k) : k \in ApiKeys}
Environ == {None, Some("sk-1")}
Methods == {"GET", "POST"}
Paths == {"/health", "/v1/sozo/generate"}
Statuses == {200, 302, 400, 401, 429, 500}

HeaderChars == Digits \cup {"x"}
HeaderValues == UNION {[1..n -> HeaderChars] : n \in 0..MaxHeaderLen}
RetryAfters == {None} \cup {Some(v) : v \in HeaderValues}
RequestIds == {None, Some("req-1")}

Cores == {<<>>, <<PLAIN, WS, PLAIN>>} \cup {<<c>> : c \in JsonChunks \cup {PLAIN}}
Bodies == {Pad(l) \o core \o Pad(t) : l \in 0..MaxPad, t \in 0..MaxPad, core \in Cores}

Answers ==
  {RequestError} \cup
  {Response(status, retry_after, request_id, text) :
     status \in Statuses, retry_after \in RetryAfters,
     request_id \in RequestIds, text \in Bodies}

Schemas == {None, Some({}), Some({<<"id", "uuid4">>})}
SchemaNames == {None, Some(""), Some("users")}
Records == {10}
Correlations == {None}
Seeds == {None}
DefaultTimeout == 30
Timeouts == {DefaultTimeout}

\* What the transport can answer to a service call: a failure, or a response
\* whose body is one of the given documents, or not an object at all.
ServiceAnswers(chunks) ==
  {RequestError} \cup
  {Response(status, retry_after, request_id, <<chunk>>) :
     status \in {200, 401, 429, 500},
     retry_after \in {None, Some(<<"3">>), Some(<<"x">>)},
     request_id \in RequestIds, chunk \in chunks \cup {ARRAY, PLAIN}}

GuardrailsArgs ==
  {None, Some(Guardrails(TRUE, None, None, None, None, None)),
   Some(Guardrails(FALSE, Some(<<"users">>), None, None, Some(0), None))}
TablesArgs == {<<>>, <<AkumaTable("users", "", Some(<<"id">>))>>}

RegisterAnswers == ServiceAnswers({OBJ_ID, OBJ_ERROR, OBJ_EMPTY})

ResourceArgs ==
  {EnzanResource(Some("r1"), Some("aws"), Some("a100"), Some(8), Some(32), region,
                 labels) :
     region \in {None, Some(""), Some("us")},
     labels \in {None, Some({}), Some({<<"env", "prod">>})}}
AlertArgs ==
  {EnzanAlert(Some("a1"), Some("spend"), Some("cost_threshold"), Some(100),
              Some("24h"), Some(enabled)) : enabled \in BOOLEAN}

----------------------------------------------------------------------------
\* State

VARIABLES
  tree,      \* which tree's client the program uses
  base_url,  \* HttpClient.base_url
  api_key,   \* HttpClient.api_key
  timeout,   \* HttpClient.timeout
  op,        \* the call in progress or just finished, with its arguments
  sent,      \* the requests that call handed to the transport, in order
  answer,    \* what the transport answered to that call
  outcome,   \* what that call gave its caller
  requested, \* the configuration the program asked for last
  subject,   \* the model object the program holds
  derived,   \* what the last method called on that object returned
  calls,     \* each thread's call of _request: its position and its locals
  held       \* every configuration the adapter held while threads used it

vars ==
  <<tree, base_url, api_key, timeout, requested, op, sent, answer, outcome, subject,
    derived, calls, held>>

\* The model objects are not touched by the clients.
models == <<subject, derived>>

\* The threads that call one adapter at the same time
Threads == 1..MaxThreads

\* One thread's call of _request: where it stands, the locals url and headers,
\* what the transport answered and what the call gave its caller; disturbed
\* records that a setter ran since the call began, together that another
\* thread's request was in flight while this one was.
Call(pc, name, method, path, url, headers, ans, result, disturbed, together) ==
  [pc |-> pc, name |-> name, method |-> method, path |-> path, url |-> url,
   headers |-> headers, answer |-> ans, outcome |-> result, disturbed |-> disturbed,
   together |-> together]

NoCall ==
  Call("idle", "", "", "", <<"", "">>, Headers(None, None, None), NoAnswer, Pending,
       FALSE, FALSE)

threads == <<calls, held>>

\* A program with one caller: no thread is inside _request.
SingleCaller == calls = [t \in Threads |-> NoCall] /\ held = {}

Op(name, method, path, schema, schema_name) ==
  [name |-> name, method |-> method, path |-> path, schema |-> schema,
   schema_name |-> schema_name]

NoOp == Op("", "", "", None, None)

\* No model object is held, nothing was derived.
NoSubject == [kind |-> "none"]

Idle == outcome.kind = "none"

\* What the program passed to the constructor or, later, to the setters
Requested(url, key) == [base_url |-> url, api_key |-> key]

\* KaizenClient(api_key=arg): base_url and timeout keep the constructor's
\* defaults, and only set_base_url moves the client to another server.
Init ==
  /\ tree \in Trees
  /\ base_url = DefaultBaseUrl
  /\ \E arg \in KeyArgs, environ \in Environ : api_key = resolved_key(arg, environ)
  /\ timeout \in Timeouts
  /\ requested = Requested(base_url, api_key)
  /\ SingleCaller
  /\ subject = NoSubject
  /\ derived = NoSubject
  /\ op = NoOp
  /\ sent = <<>>
  /\ answer = NoAnswer
  /\ outcome = Pending

\* HttpClient.set_api_key, through KaizenClient.set_api_key
SetApiKey ==
  /\ Idle
  /\ \E key \in ApiKeys :
       /\ api_key' = key
       /\ requested' = Requested(requested.base_url, key)
  /\ UNCHANGED <<tree, base_url, timeout, op, sent, answer, outcome, models, threads>>

\* Mutant: the setter reaches an adapter that the service clients do not use
SetBaseUrl_on_a_copy ==
  /\ Idle
  /\ \E url \in BaseUrls : requested' = Requested(url, requested.api_key)
  /\ UNCHANGED <<tree, base_url, api_key, timeout, op, sent, answer, outcome, models, threads>>

\* HttpClient.set_base_url, through KaizenClient.set_base_url
SetBaseUrl ==
  /\ Idle
  /\ \E url \in BaseUrls :
       /\ base_url' = url
       /\ requested' = Requested(url, requested.api_key)
  /\ UNCHANGED <<tree, api_key, timeout, op, sent, answer, outcome, models, threads>>

\* A call ran: it invoked the transport when it sent a request, and then the
\* transport gave the answer.
Finish(this, ran, ans) ==
  /\ op' = this
  /\ sent' = ran.sent
  /\ answer' = IF ran.sent = <<>> THEN NoAnswer ELSE ans
  /\ outcome' = ran.outcome
  /\ UNCHANGED <<tree, base_url, api_key, timeout, requested, models, threads>>

\* HttpClient.get
Get ==
  /\ Idle
  /\ \E path \in Paths, ans \in Answers :
       Finish(Op("get", "GET", path, None, None),
              get(tree, base_url, api_key, path, ans), ans)

\* HttpClient.post
Post ==
  /\ Idle
  /\ \E path \in Paths, ans \in Answers :
       Finish(Op("post", "POST", path, None, None),
              post(tree, base_url, api_key, path,
                   Payload(None, None, None, None, None), ans), ans)

\* KaizenClient.health
Health ==
  /\ Idle
  /\ \E ans \in Answers :
       Finish(Op("health", "GET", "/health", None, None),
              health(tree, base_url, api_key, ans), ans)

\* SozoClient.generate
Generate ==
  /\ Idle
  /\ \E records \in Records, schema \in Schemas, schema_name \in SchemaNames,
        correlations \in Correlations, seed \in Seeds, ans \in Answers :
       Finish(Op("generate", "POST", "/v1/sozo/generate", schema, schema_name),
              generate(tree, base_url, api_key, records, schema, schema_name,
                       correlations, seed, ans), ans)

\* AkumaClient.query
Query ==
  /\ Idle
  /\ \E dialect \in {"postgres"}, prompt \in {"top customers"}, mode \in {"sql-only"},
        max_rows \in {None, Some(0), Some(100)}, guardrails \in GuardrailsArgs,
        ans \in ServiceAnswers({OBJ_SOFT_ERROR, OBJ_ROWS, OBJ_ERROR, OBJ_ERROR_EMPTY,
                                OBJ_SQL, OBJ_EMPTY}) :
       Finish(Op("query", "POST", "/v1/akuma/query", None, None),
              query(tree, base_url, api_key, dialect, prompt, mode, max_rows,
                    guardrails, ans), ans)

\* AkumaClient.explain
Explain ==
  /\ Idle
  /\ \E sql \in {<<"select 2">>, <<"select 3">>},
        ans \in ServiceAnswers({OBJ_EXPLAINED, OBJ_ERROR, OBJ_EMPTY}) :
       Finish(Op("explain", "POST", "/v1/akuma/explain", None, None),
              explain(tree, base_url, api_key, sql, ans), ans)

\* AkumaClient.set_schema, which the flat module does not have
SetSchema ==
  /\ Idle
  /\ tree = "package"
  /\ \E tables \in TablesArgs, version \in {None, Some(""), Some("v1")},
        ans \in ServiceAnswers({OBJ_STATUS, OBJ_ERROR, OBJ_EMPTY}) :
       Finish(Op("set_schema", "POST", "/v1/akuma/schema", None, None),
              set_schema(tree, base_url, api_key, tables, version, ans), ans)

\* EnzanClient.summary
Summary ==
  /\ Idle
  /\ \E window \in {"24h", "7d"},
        group_by \in {None, Some(<<>>), Some(<<"endpoint">>)},
        filters \in {None, Some({})},
        ans \in ServiceAnswers(SummaryChunks \cup {OBJ_ERROR, OBJ_EMPTY}) :
       Finish(Op("summary", "POST", "/v1/enzan/summary", None, None),
              summary(tree, base_url, api_key, window, group_by, filters, ans),
              ans)

\* EnzanClient.list_resources
ListResources ==
  /\ Idle
  /\ \E ans \in ServiceAnswers(ResourceChunks \cup {OBJ_ERROR, OBJ_EMPTY}) :
       Finish(Op("list_resources", "GET", "/v1/enzan/resources", None, None),
              list_resources(tree, base_url, api_key, ans), ans)

\* EnzanClient.burn
Burn ==
  /\ Idle
  /\ \E ans \in ServiceAnswers({OBJ_BURN, OBJ_ERROR, OBJ_EMPTY}) :
       Finish(Op("burn", "GET", "/v1/enzan/burn", None, None),
              burn(tree, base_url, api_key, ans), ans)

\* EnzanClient.register_resource
RegisterResource ==
  /\ Idle
  /\ \E resource \in ResourceArgs, ans \in RegisterAnswers :
       Finish(Op("register_resource", "POST", "/v1/enzan/resources", None, None),
              register_resource(tree, base_url, api_key, resource, ans), ans)

\* EnzanClient.list_alerts
ListAlerts ==
  /\ Idle
  /\ \E ans \in ServiceAnswers({ALERTS_FULL, ALERTS_MIN, ALERTS_NO_NAME, OBJ_ERROR,
                                   OBJ_EMPTY}) :
       Finish(Op("list_alerts", "GET", "/v1/enzan/alerts", None, None),
              list_alerts(tree, base_url, api_key, ans), ans)

\* EnzanClient.create_alert
CreateAlert ==
  /\ Idle
  /\ \E alert \in AlertArgs, ans \in RegisterAnswers :
       Finish(Op("create_alert", "POST", "/v1/enzan/alerts", None, None),
              create_alert(tree, base_url, api_key, alert, ans), ans)

\* SozoClient.list_schemas
ListSchemas ==
  /\ Idle
  /\ \E ans \in ServiceAnswers(SchemaChunks \cup {OBJ_ERROR, OBJ_EMPTY}) :
       Finish(Op("list_schemas", "GET", "/v1/sozo/schemas", None, None),
              list_schemas(tree, base_url, api_key, ans), ans)

\* The caller has its result, or has caught the exception, and goes on.
Receive ==
  /\ ~Idle
  /\ op' = NoOp
  /\ sent' = <<>>
  /\ answer' = NoAnswer
  /\ outcome' = Pending
  /\ UNCHANGED <<tree, base_url, api_key, timeout, requested, models, threads>>

Next ==
  \/ SetApiKey
  \/ SetBaseUrl
  \/ Get
  \/ Post
  \/ Health
  \/ Generate
  \/ Query
  \/ Explain
  \/ SetSchema
  \/ Summary
  \/ ListResources
  \/ Burn
  \/ RegisterResource
  \/ ListAlerts
  \/ CreateAlert
  \/ ListSchemas
  \/ Receive

Spec == Init /\ [][Next]_vars

----------------------------------------------------------------------------
\* The program building model objects and calling their methods

Subject(kind, obj) == [kind |-> kind, obj |-> obj]
Derived(kind, value) == [kind |-> kind, value |-> value]

\* No client call is in progress and none happens.
ClientAtRest ==
  /\ tree = "package"
  /\ base_url = DefaultBaseUrl
  /\ api_key = ""
  /\ timeout = DefaultTimeout
  /\ requested = Requested(DefaultBaseUrl, "")
  /\ op = NoOp
  /\ sent = <<>>
  /\ answer = NoAnswer
  /\ outcome = Pending
  /\ SingleCaller

\* The responses the program builds
Chars == {"a", COMMA, QUOTE, NEWLINE}
Strings(n) == UNION {[1..k -> Chars] : k \in 0..n}
Cells == {None} \cup {Some(s) : s \in Strings(MaxCellLen)}
ShortCells == {None} \cup {Some(s) : s \in Strings(1)}
Names == {<<"x">>, <<"y", COMMA>>, <<QUOTE>>}

ColumnLists ==
  {<<>>} \cup {<<n>> : n \in Names} \cup
  {columns \in Names \X Names : columns[1] # columns[2]}

\* dicts of at most two keys
Dicts ==
  {<<>>} \cup {<< <<k, v>> >> : k \in Names, v \in Cells} \cup
  UNION {{<< <<k, v>>, <<l, w>> >> : l \in Names \ {k}, v \in Cells, w \in ShortCells} :
           k \in Names}

FewDicts ==
  {<<>>, << <<<<"x">>, Some(<<"a">>)>> >>,
   << <<<<"y", COMMA>>, Some(<<COMMA>>)>>, <<<<"x">>, None>> >>}

RowLists ==
  {<<>>} \cup {<<row>> : row \in Dicts} \cup
  UNION {[1..n -> FewDicts] : n \in 2..MaxRows}

Responses ==
  {SozoGenerateResponse(columns, rows) : columns \in ColumnLists, rows \in RowLists}

ModelInit ==
  /\ ClientAtRest
  /\ subject = NoSubject
  /\ derived = NoSubject

\* Guardrails(...)
NewGuardrails ==
  /\ subject.kind = "none"
  /\ \E g \in GuardrailsValues : subject' = Subject("Guardrails", g)
  /\ derived' = NoSubject
  /\ UNCHANGED <<tree, base_url, api_key, timeout, requested, op, sent, answer, outcome,
               threads>>

\* Guardrails.to_dict
ToDict ==
  /\ subject.kind = "Guardrails"
  /\ derived' = Derived("to_dict", to_dict(subject.obj))
  /\ UNCHANGED <<tree, base_url, api_key, timeout, requested, op, sent, answer, outcome,
               subject, threads>>

\* SozoGenerateResponse(...)
NewResponse ==
  /\ subject.kind = "none"
  /\ \E response \in Responses : subject' = Subject("SozoGenerateResponse", response)
  /\ derived' = NoSubject
  /\ UNCHANGED <<tree, base_url, api_key, timeout, requested, op, sent, answer, outcome,
               threads>>

\* SozoGenerateResponse.to_csv
ToCsv ==
  /\ subject.kind = "SozoGenerateResponse"
  /\ derived' = Derived("to_csv", to_csv(subject.obj))
  /\ UNCHANGED <<tree, base_url, api_key, timeout, requested, op, sent, answer, outcome,
               subject, threads>>

\* SozoGenerateResponse.to_jsonl
ToJsonl ==
  /\ subject.kind = "SozoGenerateResponse"
  /\ derived' = Derived("to_jsonl", to_jsonl(subject.obj))
  /\ UNCHANGED <<tree, base_url, api_key, timeout, requested, op, sent, answer, outcome,
               subject, threads>>

\* The program lets go of the object it holds.
Discard ==
  /\ subject.kind # "none"
  /\ subject' = NoSubject
  /\ derived' = NoSubject
  /\ UNCHANGED <<tree, base_url, api_key, timeout, requested, op, sent, answer, outcome,
               threads>>

ModelNext ==
  \/ NewGuardrails
  \/ ToDict
  \/ NewResponse
  \/ ToCsv
  \/ ToJsonl
  \/ Discard

ModelSpec == ModelInit /\ [][ModelNext]_vars

----------------------------------------------------------------------------
\* Several threads calling one adapter.  _request keeps url, headers,
\* response and data in locals; it reads self.base_url when it builds the url
\* and self.api_key when it builds the headers, and the setters assign one
\* field each.

\* The service calls the threads make, by turns
ThreadOps ==
  <<Op("query", "POST", "/v1/akuma/query", None, None),
    Op("burn", "GET", "/v1/enzan/burn", None, None),
    Op("health", "GET", "/health", None, None)>>

service_of(t) == ThreadOps[((t - 1) % Len(ThreadOps)) + 1]

\* json_data of a thread's call
json_of(call) ==
  IF call.method = "GET"
  THEN None
  ELSE Some(QueryPayload(Some("postgres"), Some("top customers"), Some("sql-only"),
                         None, None))

\* What the transport answers to a thread's request
ThreadAnswers ==
  {RequestError, Response(200, None, Some("req-1"), <<OBJ_SQL>>),
   Response(401, None, None, <<OBJ_ERROR>>)}

\* The request a call handed to the transport
request_of(call) == Request(call.method, call.url, call.headers, json_of(call))

\* _request from the transport's answer on: the call's own response decides
respond(this_tree, response) ==
  IF response.kind = "RequestError"
  THEN Raise(KaizenError(<<"Request failed: ", "RequestError">>, None, None, None))
  ELSE IF this_tree = "package" THEN classify(response) ELSE flat_classify(response)

ThreadInit ==
  /\ tree \in Trees
  /\ base_url = DefaultBaseUrl
  /\ \E arg \in KeyArgs, environ \in Environ : api_key = resolved_key(arg, environ)
  /\ timeout \in Timeouts
  /\ requested = Requested(base_url, api_key)
  /\ calls = [t \in Threads |-> NoCall]
  /\ held = {Requested(base_url, api_key)}
  /\ subject = NoSubject
  /\ derived = NoSubject
  /\ op = NoOp
  /\ sent = <<>>
  /\ answer = NoAnswer
  /\ outcome = Pending

single == <<op, sent, answer, outcome, models>>

\* A setter ran: every call that has begun is marked.
disturb(all) ==
  [t \in Threads |->
     IF all[t].pc = "idle" THEN all[t] ELSE [all[t] EXCEPT !.disturbed = TRUE]]

\* HttpClient.set_api_key, called while other threads are inside _request
SetApiKeyInFlight ==
  /\ \E key \in ApiKeys :
       /\ api_key' = key
       /\ requested' = Requested(requested.base_url, key)
       /\ held' = held \cup {Requested(base_url, key)}
  /\ calls' = disturb(calls)
  /\ UNCHANGED <<tree, base_url, timeout, single>>

\* HttpClient.set_base_url, called while other threads are inside _request
SetBaseUrlInFlight ==
  /\ \E url \in BaseUrls :
       /\ base_url' = url
       /\ requested' = Requested(url, requested.api_key)
       /\ held' = held \cup {Requested(url, api_key)}
  /\ calls' = disturb(calls)
  /\ UNCHANGED <<tree, api_key, timeout, single>>

\* The call is between entering _request and the transport's answer.
InFlight(call) == call.pc \in {"url", "sent"}

\* _request, entered through a service client: url = f"{self.base_url}{path}"
Begin(t) ==
  /\ calls[t].pc = "idle"
  /\ calls' = [u \in Threads |->
                 IF u = t
                 THEN Call("url", service_of(t).name, service_of(t).method,
                           service_of(t).path, <<base_url, service_of(t).path>>,
                           NoCall.headers, NoAnswer, Pending, FALSE,
                           \E other \in Threads : InFlight(calls[other]))
                 ELSE IF InFlight(calls[u])
                 THEN [calls[u] EXCEPT !.together = TRUE]
                 ELSE calls[u]]
  /\ UNCHANGED <<tree, base_url, api_key, timeout, requested, held, single>>

\* Mutant: the headers carry the key the adapter was built with by default,
\* whatever key it holds now
Send_default_key(t) ==
  /\ calls[t].pc = "url"
  /\ calls' = [calls EXCEPT ![t].pc = "sent",
                            ![t].headers =
                              IF tree = "package"
                              THEN request_headers("", calls[t].method)
                              ELSE flat_headers("")]
  /\ UNCHANGED <<tree, base_url, api_key, timeout, requested, held, single>>

\* _request: the headers are built from self.api_key and the request is handed
\* to the transport
Send(t) ==
  /\ calls[t].pc = "url"
  /\ calls' = [calls EXCEPT ![t].pc = "sent",
                            ![t].headers =
                              IF tree = "package"
                              THEN request_headers(api_key, calls[t].method)
                              ELSE flat_headers(api_key)]
  /\ UNCHANGED <<tree, base_url, api_key, timeout, requested, held, single>>

\* Mutant: the adapter keeps the response in a field that the threads share,
\* so a call reads the response another call stored there
Respond_shared_response(t) ==
  /\ calls[t].pc = "sent"
  /\ \E response \in ThreadAnswers :
       LET stored == IF \E u \in Threads \ {t} : calls[u].pc = "done"
                     THEN calls[CHOOSE u \in Threads \ {t} : calls[u].pc = "done"].answer
                     ELSE response
       IN  calls' = [calls EXCEPT ![t].pc = "done", ![t].url = NoCall.url,
                                  ![t].headers = NoCall.headers,
                                  ![t].answer = response,
                                  ![t].outcome = respond(tree, stored)]
  /\ UNCHANGED <<tree, base_url, api_key, timeout, requested, held, single>>

\* _request: the transport answers and the call returns or raises; its locals
\* url and headers end with it
Respond(t) ==
  /\ calls[t].pc = "sent"
  /\ \E response \in ThreadAnswers :
       calls' = [calls EXCEPT ![t].pc = "done", ![t].url = NoCall.url,
                              ![t].headers = NoCall.headers,
                              ![t].answer = response,
                              ![t].outcome = respond(tree, response)]
  /\ UNCHANGED <<tree, base_url, api_key, timeout, requested, held, single>>

\* The caller has its result and the thread is free for the next call.
Leave(t) ==
  /\ calls[t].pc = "done"
  /\ calls' = [calls EXCEPT ![t] = NoCall]
  /\ UNCHANGED <<tree, base_url, api_key, timeout, requested, held, single>>

ThreadNext ==
  \/ SetApiKeyInFlight
  \/ SetBaseUrlInFlight
  \/ \E t \in Threads : Begin(t)
  \/ \E t \in Threads : Send(t)
  \/ \E t \in Threads : Respond(t)
  \/ \E t \in Threads : Leave(t)

ThreadSpec == ThreadInit /\ [][ThreadNext]_vars

----------------------------------------------------------------------------
\* Vocabulary of the properties

\* The call went through the package tree's adapter and got a response.
PackageResponse == tree = "package" /\ answer.kind = "response"

\* ... and the caller is the adapter's own caller: the result is _request's.
AdapterCall == PackageResponse /\ op.name \in {"get", "post", "health"}

\* The text without the whitespace before and after it.
Trimmed(text) ==
  CHOOSE t \in {SubSeq(text, i, j) : i \in 1..(Len(text) + 1), j \in 0..Len(text)} :
    /\ t = <<>> \/ (t[1] # WS /\ t[Len(t)] # WS)
    /\ \E l \in 0..Len(text), r \in 0..Len(text) : text = Pad(l) \o t \o Pad(r)

IsJsonText(text) == \E c \in JsonChunks : Trimmed(text) = <<c>>

AllDigits(s) == Len(s) > 0 /\ \A i \in 1..Len(s) : s[i] \in {"0", "3"}

RECURSIVE Decimal(_, _)
Decimal(s, acc) ==
  IF s = <<>> THEN acc
  ELSE Decimal(Tail(s), 10 * acc + (IF Head(s) = "3" THEN 3 ELSE 0))

Raised(exc) == outcome.kind = "raise" /\ outcome.error.exc = exc

----------------------------------------------------------------------------
\* C1: every response is classified by status in the order 401 (auth error,
\* status 401, code AUTH_ERROR), 429 (rate limit error, status 429, code
\* RATE_LIMIT), any other status >= 400 (plain KaizenError carrying the
\* status), and a status < 400 raises nothing and returns the parsed body.
C1_StatusClassification ==
  AdapterCall =>
    /\ answer.status = 401 =>
         /\ Raised("KaizenAuthError")
         /\ outcome.error.status = Some(401)
         /\ outcome.error.code = Some("AUTH_ERROR")
    /\ answer.status = 429 =>
         /\ Raised("KaizenRateLimitError")
         /\ outcome.error.status = Some(429)
         /\ outcome.error.code = Some("RATE_LIMIT")
    /\ (answer.status >= 400 /\ answer.status \notin {401, 429}) =>
         /\ Raised("KaizenError")
         /\ outcome.error.status = Some(answer.status)
    /\ answer.status < 400 =>
         /\ outcome.kind = "return"
         /\ Trimmed(answer.text) = <<OBJ_SQL>> =>
              outcome.value = Parsed("dict", Dict(None, Some(<<"select 1">>)))

\* C2: whatever the status, the headers, the body or the transport failure,
\* a call of the adapter that fails raises a KaizenError or a subclass of it.
C2_OnlyKaizenErrors ==
  (tree = "package" /\ op.name \in {"get", "post", "health"}
     /\ outcome.kind = "raise") =>
    outcome.error.exc \in KaizenKinds

\* C3: generate with neither a schema nor a schema_name (absent or empty)
\* raises KaizenValidationError and hands nothing to the transport.
C3_GenerateFailsFast ==
  (op.name = "generate" /\ op.schema \in {None, Some({})}
     /\ op.schema_name \in {None, Some("")}) =>
    /\ Raised("KaizenValidationError")
    /\ sent = <<>>
    /\ answer = NoAnswer

C3_Witness ==
  /\ tree = "package"
  /\ op.name = "generate"
  /\ op.schema = Some({})
  /\ op.schema_name = Some("")
  /\ Raised("KaizenValidationError")
  /\ sent = <<>>

\* C4 as stated: the adapter returns objects only, wraps a JSON scalar or
\* array body into {error: <body text>}, and returns {} only for an empty
\* body.
C4_ScalarsWrapped ==
  (AdapterCall /\ outcome.kind = "return") =>
    /\ outcome.value.type = "dict"
    /\ Trimmed(answer.text) \in {<<ARRAY>>, <<SCALAR>>} =>
         outcome.value.dict = Dict(Some(Trimmed(answer.text)), None)
    /\ outcome.value.dict = EmptyDict => answer.text = <<>>

\* C4 amended: the adapter returns objects only; a JSON scalar or array body
\* gives the empty object {}, its content dropped; the result is {} exactly
\* when the body is empty or blank, a JSON scalar or array, or the object {}.
C4_ScalarsDropped ==
  (AdapterCall /\ outcome.kind = "return") =>
    /\ outcome.value.type = "dict"
    /\ Trimmed(answer.text) \in {<<ARRAY>>, <<SCALAR>>} =>
         outcome.value.dict = EmptyDict
    /\ outcome.value.dict = EmptyDict <=>
         Trimmed(answer.text) \in {<<>>, <<ARRAY>>, <<SCALAR>>, <<OBJ_EMPTY>>}

C4_Witness ==
  /\ AdapterCall
  /\ answer.status = 200
  /\ answer.text = <<ARRAY>>
  /\ outcome = Return(Parsed("dict", EmptyDict))

\* C5 as stated: parsing never raises; a body that is not JSON gives
\* {error: <raw text>} when the text is not empty and {} when it is empty; a
\* JSON object is returned unchanged.
C5_RawTextFallback ==
  AdapterCall =>
    /\ ~Raised("JSONDecodeError")
    /\ (outcome.kind = "return" /\ ~IsJsonText(answer.text)) =>
         outcome.value.dict =
           IF answer.text # <<>> THEN Dict(Some(answer.text), None) ELSE EmptyDict
    /\ (outcome.kind = "return" /\ Trimmed(answer.text) = <<OBJ_SQL>>) =>
         outcome.value.dict = Dict(None, Some(<<"select 1">>))
    /\ (outcome.kind = "return" /\ Trimmed(answer.text) = <<OBJ_ERROR>>) =>
         outcome.value.dict = Dict(Some(<<"bad key">>), None)

\* C5 amended: parsing never raises; a body that is not JSON gives
\* {error: <text without leading and trailing whitespace>} when that trimmed
\* text is not empty and {} when the body is empty or blank; a JSON object is
\* returned unchanged.
C5_TrimmedTextFallback ==
  AdapterCall =>
    /\ ~Raised("JSONDecodeError")
    /\ (outcome.kind = "return" /\ ~IsJsonText(answer.text)) =>
         outcome.value.dict =
           IF Trimmed(answer.text) # <<>>
           THEN Dict(Some(Trimmed(answer.text)), None)
           ELSE EmptyDict
    /\ (outcome.kind = "return" /\ Trimmed(answer.text) = <<OBJ_SQL>>) =>
         outcome.value.dict = Dict(None, Some(<<"select 1">>))
    /\ (outcome.kind = "return" /\ Trimmed(answer.text) = <<OBJ_ERROR>>) =>
         outcome.value.dict = Dict(Some(<<"bad key">>), None)

C5_Witness ==
  /\ AdapterCall
  /\ answer.status = 200
  /\ answer.text = <<WS, PLAIN, WS>>
  /\ outcome = Return(Parsed("dict", Dict(Some(<<PLAIN>>), None)))

\* C6: a 429 response whose Retry-After holds the integer n raises a rate
\* limit error with retry_after = n (30 for 30, 0 for 0); without the header
\* retry_after is None, not zero.
C6_RetryAfter ==
  (AdapterCall /\ answer.status = 429) =>
    /\ answer.retry_after = None =>
         Raised("KaizenRateLimitError") /\ outcome.error.retry_after = None
    /\ (answer.retry_after # None /\ AllDigits(answer.retry_after[1])) =>
         /\ Raised("KaizenRateLimitError")
         /\ outcome.error.retry_after = Some(Decimal(answer.retry_after[1], 0))
    /\ answer.retry_after = Some(<<"3", "0">>) =>
         outcome.error.retry_after = Some(30)
    /\ answer.retry_after = Some(<<"0">>) =>
         outcome.error.retry_after = Some(0)

C6_Witness ==
  /\ AdapterCall
  /\ answer.status = 429
  /\ answer.retry_after = Some(<<"3", "0">>)
  /\ Raised("KaizenRateLimitError")
  /\ outcome.error.retry_after = Some(30)

\* C7 as stated: a 401 response whose body is an object with error field m
\* raises an auth error with message m and status 401, whatever the method
\* and the path.
C7_AuthMessageAnyField ==
  (PackageResponse /\ answer.status = 401) =>
    /\ Trimmed(answer.text) = <<OBJ_ERROR>> =>
         /\ Raised("KaizenAuthError")
         /\ outcome.error.message = <<"bad key">>
         /\ outcome.error.status = Some(401)
    /\ Trimmed(answer.text) = <<OBJ_ERROR_EMPTY>> =>
         /\ Raised("KaizenAuthError")
         /\ outcome.error.message = <<>>
         /\ outcome.error.status = Some(401)

\* C7 amended: a 401 response whose body is an object with a non-empty
\* string error field m raises an auth error with message m and status 401,
\* whatever the method and the path; with an empty error field the message
\* is "Request failed".
C7_AuthMessageNonEmptyField ==
  (PackageResponse /\ answer.status = 401) =>
    /\ Trimmed(answer.text) = <<OBJ_ERROR>> =>
         /\ Raised("KaizenAuthError")
         /\ outcome.error.message = <<"bad key">>
         /\ outcome.error.status = Some(401)
    /\ Trimmed(answer.text) = <<OBJ_ERROR_EMPTY>> =>
         /\ Raised("KaizenAuthError")
         /\ outcome.error.message = <<"Request failed">>
         /\ outcome.error.status = Some(401)

C7_Witness ==
  /\ PackageResponse
  /\ op.name = "generate"
  /\ answer.status = 401
  /\ answer.text = <<OBJ_ERROR>>
  /\ Raised("KaizenAuthError")
  /\ outcome.error.message = <<"bad key">>

\* C8: on every error path (401, 429, any other status >= 400) the raised
\* error's request_id is the X-Request-ID header of the response, and None
\* when the response has no such header.
C8_RequestIdAttached ==
  (AdapterCall /\ answer.status >= 400) =>
    /\ outcome.kind = "raise"
    /\ outcome.error.request_id = answer.request_id

C10_RequestHeaders ==
  \A i \in 1..Len(sent) :
    /\ sent[i].headers.user_agent = Some(<<"kaizen-python/", "1.0.0">>)
    /\ sent[i].headers.content_type =
         IF sent[i].method # "GET" THEN Some("application/json") ELSE None
    /\ sent[i].headers.authorization =
         IF api_key # "" THEN Some(<<"Bearer ", api_key>>) ELSE None

\* The keys a payload carries
Keys(payload) == {k \in DOMAIN payload : payload[k] # None}

\* C11: a Guardrails with only read_only and max_rows set serialises to a
\* payload whose keys are exactly readOnly and maxRows, maxRows being
\* max_rows, for every boolean read_only and every integer max_rows.
C11_OnlyReadOnlyAndMaxRows ==
  (/\ derived.kind = "to_dict"
   /\ subject.obj.max_rows # None
   /\ subject.obj.allow_tables = None
   /\ subject.obj.deny_tables = None
   /\ subject.obj.deny_columns = None
   /\ subject.obj.timeout_secs = None) =>
    /\ Keys(derived.value) = {"readOnly", "maxRows"}
    /\ derived.value.maxRows = subject.obj.max_rows
    /\ derived.value.readOnly = Some(subject.obj.read_only)

\* The body of the answer is one JSON object, and the object it is
IsObject(text) ==
  Len(text) = 1 /\ text[1] \in JsonDocuments /\ loads(text[1]).type = "dict"

Wire(text) == loads(text[1]).dict

ServiceCall(name) == op.name = name /\ answer.kind = "response"

\* C12: an error field inside a status 200 response to AkumaClient.query is
\* not raised: query returns an AkumaQueryResponse whose error is that field
\* and whose sql is the sql of the response, the empty string when the
\* response has none.
C12_SoftErrorReturned ==
  (/\ ServiceCall("query")
   /\ answer.status = 200
   /\ IsObject(answer.text)
   /\ Wire(answer.text).error # None) =>
    /\ outcome.kind = "return"
    /\ outcome.value.type = "AkumaQueryResponse"
    /\ outcome.value.dict.error = Wire(answer.text).error
    /\ outcome.value.dict.sql =
         IF Wire(answer.text).sql # None THEN Wire(answer.text).sql ELSE Some(<<>>)

C12_Witness ==
  /\ ServiceCall("query")
  /\ answer.status = 200
  /\ answer.text = <<OBJ_SOFT_ERROR>>
  /\ outcome.kind = "return"
  /\ outcome.value.dict.error = Some(<<"unsafe">>)
  /\ outcome.value.dict.sql = Some(<<"select 1">>)

\* A summary call that returned, answered with a JSON object
SummaryReturned ==
  /\ ServiceCall("summary")
  /\ IsObject(answer.text)
  /\ outcome.kind = "return"

\* The rows of the wire response, none when it has no rows key
WireRows == value_or(Wire(answer.text), "rows", Some(<<>>))[1]

\* C13: summary maps the optional apiCosts object: without an apiCosts key
\* the summary's api_costs is None, with one api_costs has the wire fields
\* one to one (totalCostUsd, promptTokens, outputTokens, queries).
C13_ApiCostsMapped ==
  SummaryReturned =>
    LET api_costs == dict_get(Wire(answer.text), "apiCosts")
    IN  /\ "api_costs" \in DOMAIN outcome.value.dict
        /\ api_costs = None => outcome.value.dict.api_costs = None
        /\ api_costs # None =>
             outcome.value.dict.api_costs =
               Some([total_cost_usd |-> api_costs[1].totalCostUsd,
                     prompt_tokens |-> api_costs[1].promptTokens,
                     output_tokens |-> api_costs[1].outputTokens,
                     queries |-> api_costs[1].queries])

\* C14: summary maps every wire row to a summary row that keeps the grouping
\* dimensions of the row, endpoint included (None when absent), with project,
\* model, team and provider.
C14_RowsKeepEndpoint ==
  SummaryReturned =>
    /\ Len(outcome.value.dict.rows) = Len(WireRows)
    /\ \A i \in DOMAIN WireRows :
         /\ outcome.value.dict.rows[i].project = WireRows[i].project
         /\ outcome.value.dict.rows[i].model = WireRows[i].model
         /\ outcome.value.dict.rows[i].team = WireRows[i].team
         /\ outcome.value.dict.rows[i].provider = WireRows[i].provider
         /\ "endpoint" \in DOMAIN outcome.value.dict.rows[i]
         /\ outcome.value.dict.rows[i].endpoint = WireRows[i].endpoint

\* The number a numeric field must hold: the wire value, zero without one
WireOrZero(field) == IF field \in {None, Null} THEN Some(0) ELSE field[1]

\* C15: in every summary returned, the numeric fields of the rows and the
\* totals are never null: each is the wire value when the wire response has
\* one and zero otherwise, whatever the shape of the wire object.
C15_NumbersNeverNull ==
  SummaryReturned =>
    LET total == value_or(Wire(answer.text), "total", Some(NoTotal))[1]
        summary_ == outcome.value.dict
    IN  /\ summary_.total_cost_usd = WireOrZero(total.cost_usd)
        /\ summary_.total_gpu_hours = WireOrZero(total.gpu_hours)
        /\ summary_.total_requests = WireOrZero(total.requests)
        /\ \A i \in DOMAIN WireRows :
             /\ summary_.rows[i].cost_usd = WireOrZero(WireRows[i].cost_usd)
             /\ summary_.rows[i].gpu_hours = WireOrZero(WireRows[i].gpu_hours)
             /\ summary_.rows[i].requests = WireOrZero(WireRows[i].requests)
             /\ summary_.rows[i].tokens_in = WireOrZero(WireRows[i].tokens_in)
             /\ summary_.rows[i].tokens_out = WireOrZero(WireRows[i].tokens_out)

\* The resource objects of the wire response
WireResources == dict_get_or(Wire(answer.text), "resources", <<>>)[1]

\* C16: list_resources raises a lookup fault, and returns no list, whenever a
\* resource object of the response lacks one of id, provider, gpuType,
\* gpuCount, hourlyRate; no required field is replaced by a default; an
\* absent region or labels maps to None without failing.
C16_RequiredResourceFields ==
  (ServiceCall("list_resources") /\ answer.status < 400 /\ IsObject(answer.text)) =>
    LET lacking == \E i \in DOMAIN WireResources :
                     \E key \in {"id", "provider", "gpuType", "gpuCount", "hourlyRate"} :
                       WireResources[i][key] = None
    IN  /\ lacking => Raised("KeyError")
        /\ ~lacking =>
             /\ outcome.kind = "return"
             /\ Len(outcome.value.dict) = Len(WireResources)
             /\ \A i \in DOMAIN WireResources :
                  /\ outcome.value.dict[i].id = WireResources[i].id
                  /\ outcome.value.dict[i].provider = WireResources[i].provider
                  /\ outcome.value.dict[i].gpu_type = WireResources[i].gpuType
                  /\ outcome.value.dict[i].gpu_count = WireResources[i].gpuCount
                  /\ outcome.value.dict[i].hourly_rate = WireResources[i].hourlyRate
                  /\ outcome.value.dict[i].region = WireResources[i].region
                  /\ outcome.value.dict[i].labels = WireResources[i].labels

\* A later resource lacks a required field: the call raises
C16_Witness ==
  /\ ServiceCall("list_resources")
  /\ answer.status = 200
  /\ answer.text = <<RES_NO_GPU_COUNT>>
  /\ Raised("KeyError")

\* region and labels are absent: the call returns, both are None
C16_WitnessOptional ==
  /\ ServiceCall("list_resources")
  /\ answer.text = <<RES_MIN>>
  /\ outcome.kind = "return"
  /\ outcome.value.dict[1].region = None
  /\ outcome.value.dict[1].labels = None
  /\ outcome.value.dict[1].id = Some("r1")

\* The texts of a list, one after the other, with sep between neighbours
RECURSIVE Joined(_, _)
Joined(sep, texts) ==
  IF Len(texts) = 0 THEN <<>>
  ELSE IF Len(texts) = 1 THEN texts[1]
  ELSE Joined(sep, SubSeq(texts, 1, Len(texts) - 1)) \o sep \o texts[Len(texts)]

\* The value a row has under a key: None when the key is absent or null
CellOf(row, key) ==
  IF \E i \in DOMAIN row : row[i][1] = key /\ row[i][2] # None
  THEN (CHOOSE item \in {row[i] : i \in DOMAIN row} : item[1] = key)[2]
  ELSE None

\* A text with every double quote written twice
Doubled(text) == Joined(<<>>, [i \in DOMAIN text |->
                                 IF text[i] = "\"" THEN <<"\"", "\"">> ELSE <<text[i]>>])

\* A cell as the CSV output writes it
Written(cell) ==
  IF cell = None THEN <<>>
  ELSE IF \E i \in DOMAIN cell[1] : cell[1][i] \in {",", "\""}
  THEN <<"\"">> \o Doubled(cell[1]) \o <<"\"">>
  ELSE cell[1]

\* C17: to_csv returns the column names joined by commas, verbatim, as first
\* line, then one line per row in row order; a data line joins the cells of
\* the row in column order; a cell with a comma or a double quote is wrapped
\* in double quotes with each inner double quote doubled, any other cell is
\* its text unchanged, an absent or null cell is the empty string.
C17_CsvFormat ==
  derived.kind = "to_csv" =>
    LET columns == subject.obj.columns
        rows == subject.obj.rows
        header == Joined(<<",">>, columns)
        data(row) == Joined(<<",">>, [c \in DOMAIN columns |->
                                        Written(CellOf(row, columns[c]))])
    IN  derived.value =
          Joined(<<"\n">>, <<header>> \o [r \in DOMAIN rows |-> data(rows[r])])

\* Columns x and ", row {x: a"}: the output is x," then "a""", on two lines
C17_Witness ==
  /\ derived.kind = "to_csv"
  /\ subject.obj.columns = <<<<"x">>, <<"\"">>>>
  /\ subject.obj.rows = << << <<<<"x">>, Some(<<"a", "\"">>)>> >> >>
  /\ derived.value = <<"x", ",", "\"", "\n", "\"", "a", "\"", "\"", "\"", ",">>

\* A JSON string: quoted, a double quote and a newline inside it escaped
JsonString(text) ==
  <<"\"">> \o
  Joined(<<>>, [i \in DOMAIN text |->
                  IF text[i] = "\"" THEN <<"\\", "\"">>
                  ELSE IF text[i] = "\n" THEN <<"\\", "n">>
                  ELSE <<text[i]>>]) \o
  <<"\"">>

\* A row as a JSON object, its keys in insertion order, with the given
\* separators between items and between a key and its value
JsonObject(row, item_sep, key_sep) ==
  <<"{">> \o
  Joined(item_sep, [i \in DOMAIN row |->
                      JsonString(row[i][1]) \o key_sep \o
                      (IF row[i][2] = None THEN <<"n", "u", "l", "l">>
                       ELSE JsonString(row[i][2][1]))]) \o
  <<"}">>

\* C18 as stated: to_jsonl returns one compact JSON object per row, in row
\* order, separated by single newlines with no trailing newline, the keys
\* of each object in insertion order.
C18_CompactObjects ==
  derived.kind = "to_jsonl" =>
    derived.value =
      Joined(<<"\n">>, [r \in DOMAIN subject.obj.rows |->
                          JsonObject(subject.obj.rows[r], <<",">>, <<":">>)])

\* C18 amended: to_jsonl returns one JSON object per row on a line of its
\* own, in row order, separated by single newlines with no trailing newline,
\* the keys of each object in insertion order; the object is not compact:
\* its items are separated by ", " and a key from its value by ": ".
C18_SpacedObjects ==
  derived.kind = "to_jsonl" =>
    /\ derived.value =
         Joined(<<"\n">>, [r \in DOMAIN subject.obj.rows |->
                             JsonObject(subject.obj.rows[r], <<",", " ">>, <<":", " ">>)])
    /\ Cardinality({i \in DOMAIN derived.value : derived.value[i] = "\n"}) =
         IF subject.obj.rows = <<>> THEN 0 ELSE Len(subject.obj.rows) - 1

\* Row {"y,": ",", x: null}: the keys stay in insertion order
C18_Witness ==
  /\ derived.kind = "to_jsonl"
  /\ subject.obj.rows = << << <<<<"y", ",">>, Some(<<",">>)>>, <<<<"x">>, None>> >> >>
  /\ derived.value = <<"{", "\"", "y", ",", "\"", ":", " ", "\"", ",", "\"", ",", " ",
                       "\"", "x", "\"", ":", " ", "n", "u", "l", "l", "}">>

\* The operations of the service clients, and health
ServiceOps ==
  {"query", "explain", "set_schema", "summary", "burn", "list_resources",
   "register_resource", "list_alerts", "create_alert", "generate", "list_schemas",
   "health"}

\* The transport failed, or answered with an error status
Failed == answer.kind = "RequestError" \/ (answer.kind = "response" /\ answer.status >= 400)

\* C19: every service operation invokes the transport at most once whatever
\* the outcome: after a transport failure, a 401, a 429 or another error
\* status the request is not sent again, and the caller receives the error
\* of that single attempt, as the adapter raised it.
C19_SingleAttempt ==
  op.name \in ServiceOps =>
    /\ Len(sent) <= 1
    /\ (sent # <<>> /\ Failed) =>
         /\ outcome.kind = "raise"
         /\ outcome = http_request(tree, base_url, api_key, op.method, op.path,
                                   sent[1].json, answer).outcome

C19_Witness ==
  /\ op.name = "register_resource"
  /\ answer.kind = "RequestError"
  /\ Len(sent) = 1
  /\ Raised("KaizenError")
  /\ outcome.error.message = <<"Request failed: ", "RequestError">>

\* The request uses the key: it carries the key as bearer token whenever the
\* key is not empty, and no other token
UsesKey(request, key) ==
  /\ key # "" => request.headers.authorization # None
  /\ request.headers.authorization # None =>
       request.headers.authorization = Some(<<"Bearer ", key>>)

\* C20: the service clients and health() share one adapter configuration:
\* after any sequence of set_api_key and set_base_url the next request through
\* akuma, enzan, sozo or health uses the base URL and the key set last (the
\* constructor's when no setter was called), and a request, successful or
\* failed, leaves base_url, api_key and timeout unchanged.
C20_SharedConfiguration ==
  [][(Idle /\ op'.name \in ServiceOps) =>
       /\ UNCHANGED <<base_url, api_key, timeout, requested>>
       /\ sent' # <<>> =>
            /\ sent'[1].url = <<requested.base_url, op'.path>>
            /\ UsesKey(sent'[1], requested.api_key)]_vars

\* The constructor left the default base URL, so set_base_url has acted here.
C20_Witness ==
  /\ op.name = "summary"
  /\ requested = Requested("http://localhost:8080", "sk-1")
  /\ Len(sent) = 1
  /\ sent[1].url = <<"http://localhost:8080", "/v1/enzan/summary">>
  /\ sent[1].headers.authorization = Some(<<"Bearer ", "sk-1">>)
  /\ base_url = "http://localhost:8080"
  /\ api_key = "sk-1"
  /\ timeout = DefaultTimeout

----------------------------------------------------------------------------
\* Concurrent callers

\* The same call made alone, by a program with one thread, under the
\* configuration the adapter has
Alone(call, response) ==
  http_request(tree, base_url, api_key, call.method, call.path, json_of(call),
               response)

\* C21: when several threads call services through one adapter and no setter
\* runs since a call began, the call hands the transport the request (URL,
\* headers, body) it would hand over alone, and it returns the object or raises
\* the error it would alone for the answer it got, whatever the other calls
\* do and whatever they are answered.
C21_RequestsIndependent ==
  \A t \in Threads :
    ~calls[t].disturbed =>
      /\ calls[t].pc = "sent" =>
           \A response \in ThreadAnswers :
             Alone(calls[t], response).sent = <<request_of(calls[t])>>
      /\ calls[t].pc = "done" =>
           calls[t].outcome = Alone(calls[t], calls[t].answer).outcome

\* A query returned its object while the burn request of another thread, begun
\* meanwhile, is still in flight; no setter ran.
C21_Witness ==
  /\ calls[1].pc = "done" /\ calls[1].together /\ ~calls[1].disturbed
  /\ calls[1].outcome.kind = "return"
  /\ calls[1].outcome.value.dict = Dict(None, Some(<<"select 1">>))
  /\ calls[2].pc = "sent" /\ calls[2].together /\ ~calls[2].disturbed
  /\ calls[2].url = <<base_url, "/v1/enzan/burn">>

\* The request pairs the base URL and the key of this configuration.
Pairs(request, config) ==
  request.url[1] = config.base_url /\ UsesKey(request, config.api_key)

\* C22 as claimed: every request goes out with a base URL and a key that were
\* the adapter's configuration together at one instant, even when the setters
\* run while the request is in flight.
C22_ConfigurationPaired ==
  \A t \in Threads :
    calls[t].pc = "sent" => \E config \in held : Pairs(request_of(calls[t]), config)

\* C22 as the code has it: the base URL of every request and its key were each
\* configured at some instant, and they are the adapter's configuration
\* together when no setter ran since the call began; with setters running
\* meanwhile the two may come from different configurations.
C22_PairedWhenUndisturbed ==
  \A t \in Threads :
    calls[t].pc = "sent" =>
      /\ \E config \in held : request_of(calls[t]).url[1] = config.base_url
      /\ \E config \in held : UsesKey(request_of(calls[t]), config.api_key)
      /\ ~calls[t].disturbed =>
           Pairs(request_of(calls[t]), Requested(base_url, api_key))

\* Both setters ran between the call's read of base_url and its read of
\* api_key: the request pairs the first base URL with the second key, which
\* the adapter never held together.
C22_Witness ==
  /\ calls[1].pc = "sent" /\ calls[1].disturbed
  /\ calls[1].url = <<DefaultBaseUrl, "/v1/akuma/query">>
  /\ calls[1].headers.authorization = Some(<<"Bearer ", "sk-1">>)
  /\ held =
       {Requested(DefaultBaseUrl, ""), Requested("http://localhost:8080", ""),
        Requested("http://localhost:8080", "sk-1")}

----------------------------------------------------------------------------
\* The two trees

\* What the adapter of the other tree does with the same method, path, body,
\* configuration and answer
InOtherTree ==
  http_request(IF tree = "package" THEN "flat" ELSE "package", base_url, api_key,
               op.method, op.path, sent[1].json, answer)

\* The same returned object, or an error of the same kind with the same status
\* and message
SameOutcome(one, other) ==
  /\ one.kind = other.kind
  /\ one.value = other.value
  /\ one.error.exc = other.error.exc
  /\ one.error.status = other.error.status
  /\ one.error.message = other.error.message

\* C23: the HttpClient of the package root (kaizen/__init__.py) and the one of
\* kaizen/http.py behave the same: for every method, path, key and answer
\* they send the same headers and end in the same outcome.
C23_TreesAgree ==
  (op.name \in {"get", "post"} /\ sent # <<>>) =>
    /\ InOtherTree.sent[1].headers = sent[1].headers
    /\ SameOutcome(InOtherTree.outcome, outcome)

----------------------------------------------------------------------------
\* Reading CSV back

\* The pieces of a text between the occurrences of a character
RECURSIVE SplitOn(_, _)
SplitOn(text, char) ==
  IF \E i \in DOMAIN text : text[i] = char
  THEN LET first == CHOOSE i \in DOMAIN text :
                      text[i] = char /\ \A j \in 1..(i - 1) : text[j] # char
       IN  <<SubSeq(text, 1, first - 1)>> \o
           SplitOn(SubSeq(text, first + 1, Len(text)), char)
  ELSE <<text>>

\* The cells of a line from position i on: a comma outside double quotes ends
\* a cell, a double quote opens or closes a quoted part, and two double quotes
\* inside a quoted part are one double quote of the cell.
RECURSIVE ReadFrom(_, _, _, _, _)
ReadFrom(line, i, quoted, cell, cells) ==
  IF i > Len(line) THEN Append(cells, cell)
  ELSE IF line[i] = "\"" /\ quoted /\ i < Len(line) /\ line[i + 1] = "\""
  THEN ReadFrom(line, i + 2, TRUE, Append(cell, "\""), cells)
  ELSE IF line[i] = "\""
  THEN ReadFrom(line, i + 1, ~quoted, cell, cells)
  ELSE IF line[i] = "," /\ ~quoted
  THEN ReadFrom(line, i + 1, FALSE, <<>>, Append(cells, cell))
  ELSE ReadFrom(line, i + 1, quoted, Append(cell, line[i]), cells)

ReadCells(line) == ReadFrom(line, 1, FALSE, <<>>, <<>>)

\* The text of a cell: empty for an absent or null cell
TextOf(cell) == IF cell = None THEN <<>> ELSE cell[1]

\* C24: the output of to_csv can be read back: for a response with at least
\* one column, splitting the output on newlines and every line on the commas
\* outside double quotes (two double quotes read as one) gives 1 + len(rows)
\* lines of len(columns) cells each, the column names first and then the
\* texts of each row's cells in column order, whatever characters the names
\* and the cells contain.
C24_ReadBack ==
  (derived.kind = "to_csv" /\ Len(subject.obj.columns) >= 1) =>
    LET columns == subject.obj.columns
        rows == subject.obj.rows
        lines == SplitOn(derived.value, "\n")
    IN  /\ Len(lines) = 1 + Len(rows)
        /\ \A l \in DOMAIN lines : Len(ReadCells(lines[l])) = Len(columns)
        /\ ReadCells(lines[1]) = columns
        /\ \A r \in DOMAIN rows :
             r + 1 \in DOMAIN lines =>
               ReadCells(lines[r + 1]) =
                 [c \in DOMAIN columns |-> TextOf(CellOf(rows[r], columns[c]))]

====
